---- MODULE Spec2Model ----
(***************************************************************************)
(* A model of pyflywheel/core.py: the FlyWheel serial driver.  The driver *)
(* owns a bounded command queue, a bounded raw-byte queue, a telemetry    *)
(* deque and up to four daemon threads per start(): the writer            *)
(* (_communication_loop), the reader (_response_loop), the decoder        *)
(* (_process_response) and the optional poller (_polling_loop).           *)
(* Bytes are integers 0..255, byte strings are sequences of bytes.        *)
(***************************************************************************)
EXTENDS Integers, Sequences, FiniteSets, TLC

(***************************************************************************)
(* Protocol constants.                                                     *)
(***************************************************************************)
\* 0xEB, first marker byte
HEADER0 == 235
\* 0x90, second marker byte
HEADER1 == 144
\* 0xDD, poll command code and telemetry discriminator
POLL_CODE == 221
\* 0xD2
SPEED_CODE == 210
\* 0xD3
TORQUE_CODE == 211
\* 0xD1
CURRENT_CODE == 209
\* set_speed accepts -6050..6050
SPEED_LIMIT == 6050
\* set_torque accepts -50..50
TORQUE_LIMIT == 50
\* set_current accepts -1500..1500
CURRENT_LIMIT == 1500
\* length of a telemetry frame
TELEMETRY_LEN == 32
\* length of every other frame
SHORT_LEN == 8
\* serial.read(40)
READ_SIZE == 40

(***************************************************************************)
(* Bounds of the model.                                                    *)
(***************************************************************************)
\* queue_size: capacity of cmd_queue and of resp_queue
QueueSize == 2
\* max_telemetry_size: maxlen of the telemetry deque
MaxTelemetry == 2
\* how many times start() may spawn a generation of threads
MaxStarts == 2
\* how many submission calls (set_*, poll_status) the lifecycle makes
MaxCalls == 2
\* how many submission calls are made on a running driver
MaxRunCalls == 4
\* how many submission calls are made when only the calls are looked at
MaxCmdCalls == 2
\* how many transport or callback faults are injected in total
MaxFaults == 1

(***************************************************************************)
(* Byte helpers.                                                           *)
(***************************************************************************)
Byte == 0..255

RECURSIVE Pow2(_)
Pow2(k) == IF k = 0 THEN 1 ELSE 2 * Pow2(k - 1)

RECURSIVE Log2Floor(_)
Log2Floor(n) == IF n <= 1 THEN 0 ELSE 1 + Log2Floor(n \div 2)

RECURSIVE SumBytes(_)
SumBytes(s) == IF s = <<>> THEN 0 ELSE Head(s) + SumBytes(Tail(s))

Abs(v) == IF v < 0 THEN -v ELSE v

RECURSIVE Flatten(_)
Flatten(frames) == IF frames = <<>> THEN <<>> ELSE Head(frames) \o Flatten(Tail(frames))

\* struct.pack('>f', float(v)) for an integer v with |v| < 2^24: the four
\* big-endian bytes of the IEEE-754 single with sign s, biased exponent
\* e + 127 and the 23 fraction bits of |v| / 2^e.
PackF32(v) ==
    IF v = 0 THEN <<0, 0, 0, 0>>
    ELSE LET a == Abs(v)
             e == Log2Floor(a)
             mant == (a - Pow2(e)) * Pow2(23 - e)
             E == e + 127
             s == IF v < 0 THEN 1 ELSE 0
         IN << s * 128 + E \div 2, (E % 2) * 128 + mant \div 65536,
               (mant \div 256) % 256, mant % 256 >>

\* struct.unpack('>f', b)[0]: the float as sign, biased exponent, fraction.
UnpackF32(b) ==
    [ sign |-> b[1] \div 128,
      exp  |-> (b[1] % 128) * 2 + b[2] \div 128,
      frac |-> (b[2] % 128) * 65536 + b[3] * 256 + b[4] ]

(***************************************************************************)
(* Command frames.                                                         *)
(***************************************************************************)
\* a frame whose checksum leaves out the command code
BuildCommandPayloadSum(code, v) ==
    LET data == PackF32(v)
    IN <<HEADER0, HEADER1, code>> \o data \o <<SumBytes(data) % 256>>

\* header + code + payload + ((code + sum(payload)) & 0xFF)
BuildCommand(code, v) ==
    LET data == PackF32(v)
    IN <<HEADER0, HEADER1, code>> \o data \o <<(code + SumBytes(data)) % 256>>

_build_speed_command(speed) == BuildCommand(SPEED_CODE, speed)

_build_torque_command(torque) == BuildCommand(TORQUE_CODE, torque)

_build_current_command(current) == BuildCommand(CURRENT_CODE, current)

\* the literal of poll_status
PollCommand == <<HEADER0, HEADER1, POLL_CODE, 0, 0, 0, 0, POLL_CODE>>

(***************************************************************************)
(* Telemetry decoding.                                                     *)
(***************************************************************************)
\* data[a:b] with Python's 0-based, end-exclusive indices
Slice(data, a, b) == SubSeq(data, a + 1, b)

\* int.from_bytes(bytes([x]), byteorder='big', signed=True)
SignedByte(x) == IF x >= 128 THEN x - 256 ELSE x

\* TelemetryData built by _process_data from a 32-byte frame; the timestamp
\* is the logical time of the decode.
_process_data(data, now) ==
    [ timestamp |-> now,
      header |-> Slice(data, 0, 3),
      last_command |-> data[4],
      control_target |-> UnpackF32(Slice(data, 4, 8)),
      flywheel_speed_feedback |-> UnpackF32(Slice(data, 8, 12)),
      flywheel_current_feedback |-> UnpackF32(Slice(data, 12, 16)),
      acceleration_feedback |-> UnpackF32(Slice(data, 16, 20)),
      command_response_count |-> data[21],
      telemetry_wheel_command_count |-> data[22],
      error_command_count |-> data[23],
      motherboard_current |-> data[24] * 256 + data[25],
      temperature |-> SignedByte(data[26]),
      single_motor_status |-> data[27],
      reserved |-> Slice(data, 27, 31),
      checksum |-> data[32] ]

\* buffer.find(bytes([0xEB, 0x90])) as a 1-based index, 0 when absent
RECURSIVE FindFrom(_, _)
FindFrom(buffer, i) ==
    IF i + 1 > Len(buffer) THEN 0
    ELSE IF buffer[i] = HEADER0 /\ buffer[i + 1] = HEADER1 THEN i
    ELSE FindFrom(buffer, i + 1)

\* a search that sees the marker only at the start of the buffer
FindHeaderAtStart(buffer) ==
    IF Len(buffer) >= 2 /\ buffer[1] = HEADER0 /\ buffer[2] = HEADER1 THEN 1 ELSE 0

FindHeader(buffer) == FindFrom(buffer, 1)

\* a checksum that leaves out the last payload byte
FrameChecksumShort(frame) == SumBytes(Slice(frame, 2, Len(frame) - 2)) % 256

\* sum(frame[2:-1]) & 0xFF
FrameChecksum(frame) == SumBytes(Slice(frame, 2, Len(frame) - 1)) % 256

\* a decoder that takes every frame for a telemetry frame
ExpectedLengthTelemetry(buffer) == TELEMETRY_LEN

\* expected_length from the third byte of the buffer
ExpectedLength(buffer) == IF buffer[3] = POLL_CODE THEN TELEMETRY_LEN ELSE SHORT_LEN

\* if chunk[0] == 0xEB: buffer.clear(); then buffer.extend(chunk)
ExtendBuffer(buffer, chunk) ==
    (IF chunk[1] = HEADER0 THEN <<>> ELSE buffer) \o chunk

\* One pass of the decoder over the buffer after a non-empty chunk arrived:
\* the buffer left behind, what the pass ended with and the frame it cut.
\*   "nomarker": no EB 90 in the buffer,  "short": fewer than 3 bytes,
\*   "partial": fewer bytes than the expected length,
\*   "badsum": the frame was cut and its checksum is wrong,
\*   "telemetry" / "ack": a checksum-valid frame of 32 / 8 bytes.
DecodePass(buffer, chunk) ==
    LET b1 == ExtendBuffer(buffer, chunk)
        frame_start == FindHeader(b1)
        b2 == IF frame_start > 1 THEN SubSeq(b1, frame_start, Len(b1)) ELSE b1
    IN IF frame_start = 0 THEN [buffer |-> b1, kind |-> "nomarker", frame |-> <<>>]
       ELSE IF Len(b2) < 3 THEN [buffer |-> b2, kind |-> "short", frame |-> <<>>]
       ELSE LET expected_length == ExpectedLength(b2)
            IN IF Len(b2) < expected_length
               THEN [buffer |-> b2, kind |-> "partial", frame |-> <<>>]
               ELSE LET frame == SubSeq(b2, 1, expected_length)
                        rest == SubSeq(b2, expected_length + 1, Len(b2))
                    IN IF FrameChecksum(frame) # frame[expected_length]
                       THEN [buffer |-> rest, kind |-> "badsum", frame |-> frame]
                       ELSE IF expected_length = TELEMETRY_LEN
                       THEN [buffer |-> rest, kind |-> "telemetry", frame |-> frame]
                       ELSE [buffer |-> rest, kind |-> "ack", frame |-> frame]

(***************************************************************************)
(* State of one FlyWheel object, of its threads and of the serial line.    *)
(***************************************************************************)
VARIABLES
    _running,           \* self._running
    _polling,           \* self._polling
    _is_connected,      \* self._is_connected
    serial_is_open,     \* self.serial.is_open
    auto_polling,       \* self.auto_polling, fixed at construction
    callback,           \* whether self.callback is set
    cmd_queue,          \* self.cmd_queue: sequence of [id, frame]
    resp_queue,         \* self.resp_queue: sequence of chunks
    telemetry,          \* self.telemetry: deque(maxlen=max_telemetry_size)
    thread_ref,         \* self._comm_thread, ...: generation, 0 for None
    comm,               \* writer threads by generation: [pc, command]
    resp,               \* reader threads by generation: [pc, response]
    proc,               \* decoder threads by generation: [pc, buffer, cur, last]
    poll,               \* polling threads by generation: [pc]
    client,             \* what the owner of the object is doing
    last_op,            \* the lifecycle call that returned last, its result
                        \* and, for connect, the branch it took
    stopped,            \* stop() has returned and start() was not called since
    call,               \* the submission call made last: [n, op, arg, result]
    accepted,           \* frames accepted into cmd_queue, in order
    written,            \* calls of serial.write: [id, frame, result]
    rx,                 \* bytes the device has sent and nobody has read
    cb_log,             \* invocations of the callback: <<current, previous>>
    decoded,            \* frames handed to _process_data, in order
    sent,               \* what the device sent: [garbage, frames]
    eb_starts,          \* stream positions at which a chunk began with 0xEB
    starts,             \* number of generations spawned
    faults              \* number of injected faults

vars == << _running, _polling, _is_connected, serial_is_open, auto_polling,
           callback, cmd_queue, resp_queue, telemetry, thread_ref, comm, resp,
           proc, poll, client, last_op, stopped, call, accepted, written, rx, cb_log,
           decoded, sent, eb_starts, starts, faults >>

driver == << _running, _polling, _is_connected, serial_is_open, auto_polling,
             callback, cmd_queue, resp_queue, telemetry, thread_ref >>

threads == << comm, resp, proc, poll >>

NoThread == [pc |-> "unborn"]

\* the generations of threads a behaviour has room for
Gens == DOMAIN comm

Pool(n) == [g \in 1..n |-> NoThread]

Alive(t) == t.pc \notin {"unborn", "dead"}

\* threading.Thread.join() returns / is_alive() is False
Joined(pool, kind) ==
    IF thread_ref[kind] = 0 THEN TRUE ELSE ~Alive(pool[thread_ref[kind]])

\* the state after FlyWheel(...): serial.Serial(port=...) opens the port
InitDriver ==
    /\ _running = FALSE
    /\ _polling = FALSE
    /\ _is_connected = FALSE
    /\ serial_is_open = TRUE
    /\ cmd_queue = <<>>
    /\ resp_queue = <<>>
    /\ telemetry = <<>>
    /\ thread_ref = [k \in {"comm", "resp", "proc", "poll"} |-> 0]
    /\ comm = Pool(MaxStarts)
    /\ resp = Pool(MaxStarts)
    /\ proc = Pool(MaxStarts)
    /\ poll = Pool(MaxStarts)
    /\ client = "idle"
    /\ last_op = <<"init", TRUE>>
    /\ stopped = FALSE
    /\ call = [n |-> 0, op |-> "none", arg |-> 0, result |-> "none"]
    /\ accepted = <<>>
    /\ written = <<>>
    /\ cb_log = <<>>
    /\ decoded = <<>>
    /\ eb_starts = {}
    /\ starts = 0
    /\ faults = 0

(***************************************************************************)
(* Lifecycle calls of the owner.                                           *)
(***************************************************************************)
\* a connect() without the test of _is_connected and of serial.is_open: it
\* calls serial.open() every time
connect_always_opens(opens) ==
    /\ client = "idle"
    /\ UNCHANGED stopped
    /\ IF opens
       THEN /\ serial_is_open' = TRUE
            /\ _is_connected' = TRUE
            /\ last_op' = <<"connect", TRUE, "opened">>
       ELSE /\ _is_connected' = FALSE
            /\ last_op' = <<"connect", FALSE, "failed">>
            /\ UNCHANGED serial_is_open
    /\ UNCHANGED << _running, _polling, auto_polling, callback, cmd_queue,
                    resp_queue, telemetry, thread_ref, threads, client, call,
                    accepted, written, rx, cb_log, decoded, sent, eb_starts, starts, faults >>

\* connect(): when connected it warns and returns True; otherwise it calls
\* serial.open() if the port is not open, and returns True, or False when
\* the open raised (opens: whether serial.open() succeeds)
connect(opens) ==
    /\ client = "idle"
    /\ UNCHANGED stopped
    /\ IF _is_connected
       THEN /\ last_op' = <<"connect", TRUE, "already">>
            /\ UNCHANGED << _is_connected, serial_is_open >>
       ELSE IF serial_is_open
       THEN /\ _is_connected' = TRUE
            /\ last_op' = <<"connect", TRUE, "kept">>
            /\ UNCHANGED serial_is_open
       ELSE IF opens
       THEN /\ serial_is_open' = TRUE
            /\ _is_connected' = TRUE
            /\ last_op' = <<"connect", TRUE, "opened">>
       ELSE /\ _is_connected' = FALSE
            /\ last_op' = <<"connect", FALSE, "failed">>
            /\ UNCHANGED serial_is_open
    /\ UNCHANGED << _running, _polling, auto_polling, callback, cmd_queue,
                    resp_queue, telemetry, thread_ref, threads, client, call,
                    accepted, written, rx, cb_log, decoded, sent, eb_starts, starts, faults >>

\* start() up to its first Thread.start(): refused when running; otherwise
\* it sets _running and creates and starts the writer, which can run from
\* here on while start() goes on
start_begin ==
    /\ client = "idle"
    /\ IF _running
       THEN /\ last_op' = <<"start", FALSE>>
            /\ UNCHANGED << _running, thread_ref, comm, starts, stopped, client >>
       ELSE /\ starts + 1 \in Gens
            /\ _running' = TRUE
            /\ stopped' = FALSE
            /\ starts' = starts + 1
            /\ comm' = [comm EXCEPT ![starts + 1] = [pc |-> "loop", command |-> <<>>]]
            /\ thread_ref' = [thread_ref EXCEPT !["comm"] = starts + 1]
            /\ client' = "start_resp"
            /\ UNCHANGED last_op
    /\ UNCHANGED << _polling, _is_connected, serial_is_open, auto_polling, callback,
                    cmd_queue, resp_queue, telemetry, resp, proc, poll, call,
                    accepted, written, rx, cb_log, decoded, sent, eb_starts, faults >>

\* start() creates and starts the reader
start_resp ==
    /\ client = "start_resp"
    /\ resp' = [resp EXCEPT ![starts] = [pc |-> "loop", response |-> <<>>]]
    /\ thread_ref' = [thread_ref EXCEPT !["resp"] = starts]
    /\ client' = "start_proc"
    /\ UNCHANGED << _running, _polling, _is_connected, serial_is_open, auto_polling,
                    callback, cmd_queue, resp_queue, telemetry, comm, proc, poll,
                    last_op, stopped, call, accepted, written, rx, cb_log, decoded,
                    sent, eb_starts, starts, faults >>

\* start() creates and starts the decoder
start_proc ==
    /\ client = "start_proc"
    /\ proc' = [proc EXCEPT ![starts] = [pc |-> "loop", buffer |-> <<>>,
                                         chunk |-> <<>>, cur |-> <<>>, last |-> <<>>]]
    /\ thread_ref' = [thread_ref EXCEPT !["proc"] = starts]
    /\ client' = "start_poll"
    /\ UNCHANGED << _running, _polling, _is_connected, serial_is_open, auto_polling,
                    callback, cmd_queue, resp_queue, telemetry, comm, resp, poll,
                    last_op, stopped, call, accepted, written, rx, cb_log, decoded,
                    sent, eb_starts, starts, faults >>

\* a start() that starts the polling thread whatever auto_polling says
start_poll_always ==
    /\ client = "start_poll"
    /\ IF _polling
       THEN /\ client' = "idle"
            /\ last_op' = <<"start", FALSE>>
            /\ UNCHANGED << _polling, poll, thread_ref >>
       ELSE /\ _polling' = TRUE
            /\ poll' = [poll EXCEPT ![starts] = [pc |-> "loop"]]
            /\ thread_ref' = [thread_ref EXCEPT !["poll"] = starts]
            /\ client' = "start_return"
            /\ UNCHANGED last_op
    /\ UNCHANGED << _running, _is_connected, serial_is_open, auto_polling, callback,
                    cmd_queue, resp_queue, telemetry, comm, resp, proc, stopped,
                    call, accepted, written, rx, cb_log, decoded, sent, eb_starts,
                    starts, faults >>

\* start() after the decoder: without auto_polling it goes on to its return;
\* with it, it returns False if _polling is set, otherwise it sets _polling
\* and creates and starts the poller
start_poll ==
    /\ client = "start_poll"
    /\ IF ~auto_polling
       THEN /\ client' = "start_return"
            /\ UNCHANGED << _polling, poll, thread_ref, last_op >>
       ELSE IF _polling
       THEN /\ client' = "idle"
            /\ last_op' = <<"start", FALSE>>
            /\ UNCHANGED << _polling, poll, thread_ref >>
       ELSE /\ _polling' = TRUE
            /\ poll' = [poll EXCEPT ![starts] = [pc |-> "loop"]]
            /\ thread_ref' = [thread_ref EXCEPT !["poll"] = starts]
            /\ client' = "start_return"
            /\ UNCHANGED last_op
    /\ UNCHANGED << _running, _is_connected, serial_is_open, auto_polling, callback,
                    cmd_queue, resp_queue, telemetry, comm, resp, proc, stopped,
                    call, accepted, written, rx, cb_log, decoded, sent, eb_starts,
                    starts, faults >>

\* the last Thread.start() has returned: start() returns True
start_return ==
    /\ client = "start_return"
    /\ client' = "idle"
    /\ last_op' = <<"start", TRUE>>
    /\ UNCHANGED << driver, threads, stopped, call, accepted, written, rx, cb_log,
                    decoded, sent, eb_starts, starts, faults >>

\* stop(): clears the flags, then joins the four threads it has references to
stop_begin ==
    /\ client = "idle"
    /\ _running' = FALSE
    /\ _polling' = FALSE
    /\ client' = "stop"
    /\ UNCHANGED << _is_connected, serial_is_open, auto_polling, callback,
                    cmd_queue, resp_queue, telemetry, thread_ref, threads,
                    last_op, stopped, call, accepted, written, rx, cb_log, decoded, sent, eb_starts, starts,
                    faults >>

\* a stop() that forgets to join the writer
StopJoinedWithoutWriter ==
    /\ Joined(resp, "resp")
    /\ Joined(poll, "poll")
    /\ Joined(proc, "proc")

StopJoined ==
    /\ Joined(comm, "comm")
    /\ Joined(resp, "resp")
    /\ Joined(poll, "poll")
    /\ Joined(proc, "proc")

stop_return ==
    /\ client = "stop"
    /\ StopJoined
    /\ client' = "idle"
    /\ last_op' = <<"stop", TRUE>>
    /\ stopped' = TRUE
    /\ UNCHANGED << driver, threads, call, accepted, written, rx, cb_log, decoded, sent, eb_starts,
                    starts, faults >>

\* disconnect(): clears the flags, joins the writer and the poller, closes
disconnect_begin ==
    /\ client = "idle"
    /\ _running' = FALSE
    /\ _polling' = FALSE
    /\ client' = "disconnect"
    /\ UNCHANGED << _is_connected, serial_is_open, auto_polling, callback,
                    cmd_queue, resp_queue, telemetry, thread_ref, threads,
                    last_op, stopped, call, accepted, written, rx, cb_log, decoded, sent, eb_starts, starts,
                    faults >>

DisconnectJoined ==
    /\ Joined(comm, "comm")
    /\ Joined(poll, "poll")

\* a disconnect() that leaves the port as it is
disconnect_return_keeps_port ==
    /\ client = "disconnect"
    /\ DisconnectJoined
    /\ _is_connected' = FALSE
    /\ client' = "idle"
    /\ last_op' = <<"disconnect", TRUE>>
    /\ UNCHANGED << stopped, serial_is_open >>
    /\ UNCHANGED << _running, _polling, auto_polling, callback, cmd_queue,
                    resp_queue, telemetry, thread_ref, threads, call, accepted,
                    written, rx, cb_log, decoded, sent, eb_starts, starts, faults >>

disconnect_return ==
    /\ client = "disconnect"
    /\ DisconnectJoined
    /\ serial_is_open' = FALSE
    /\ _is_connected' = FALSE
    /\ client' = "idle"
    /\ last_op' = <<"disconnect", TRUE>>
    /\ UNCHANGED stopped
    /\ UNCHANGED << _running, _polling, auto_polling, callback, cmd_queue,
                    resp_queue, telemetry, thread_ref, threads, call, accepted,
                    written, rx, cb_log, decoded, sent, eb_starts, starts, faults >>

(***************************************************************************)
(* Submission calls: they may come from the owner or from the callback.    *)
(***************************************************************************)
\* a queue that takes one element more than its maxsize
QueueFullOffByOne(queue) == Len(queue) > QueueSize

\* cmd_queue.put_nowait(command) raises Full at maxsize
QueueFull(queue) == Len(queue) >= QueueSize

\* _send_command(command): True and the frame at the tail, or False
_send_command(op, arg, command) ==
    IF QueueFull(cmd_queue)
    THEN /\ call' = [n |-> call.n + 1, op |-> op, arg |-> arg, result |-> "False"]
         /\ UNCHANGED << cmd_queue, accepted >>
    ELSE /\ cmd_queue' = Append(cmd_queue, [id |-> Len(accepted) + 1, frame |-> command])
         /\ accepted' = Append(accepted, command)
         /\ call' = [n |-> call.n + 1, op |-> op, arg |-> arg, result |-> "True"]

\* the exception raised before anything else is done
Raise(op, arg, error) ==
    /\ call' = [n |-> call.n + 1, op |-> op, arg |-> arg, result |-> error]
    /\ UNCHANGED << cmd_queue, accepted >>

\* a range check that excludes the limits themselves
SpeedInRangeStrict(speed) == -SPEED_LIMIT < speed /\ speed < SPEED_LIMIT

\* not -6050 <= speed <= 6050
SpeedInRange(speed) == -SPEED_LIMIT <= speed /\ speed <= SPEED_LIMIT

\* not -50 <= torque <= 50
TorqueInRange(torque) == -TORQUE_LIMIT <= torque /\ torque <= TORQUE_LIMIT

\* not -1500 <= current <= 1500
CurrentInRange(current) == -CURRENT_LIMIT <= current /\ current <= CURRENT_LIMIT

SubmitFrame ==
    UNCHANGED << _running, _polling, _is_connected, serial_is_open, auto_polling,
                 callback, resp_queue, telemetry, thread_ref, threads, client,
                 last_op, stopped, written, rx, cb_log, decoded, sent, eb_starts, starts, faults >>

set_speed(speed) ==
    /\ IF ~SpeedInRange(speed) THEN Raise("set_speed", speed, "ValueError")
       ELSE _send_command("set_speed", speed, _build_speed_command(speed))
    /\ SubmitFrame

set_torque(torque) ==
    /\ IF ~TorqueInRange(torque) THEN Raise("set_torque", torque, "ValueError")
       ELSE _send_command("set_torque", torque, _build_torque_command(torque))
    /\ SubmitFrame

set_current(current) ==
    /\ IF ~CurrentInRange(current) THEN Raise("set_current", current, "ValueError")
       ELSE _send_command("set_current", current, _build_current_command(current))
    /\ SubmitFrame

\* a poll_status() without the test of _is_connected
poll_status_unchecked ==
    /\ _send_command("poll_status", 0, PollCommand)
    /\ SubmitFrame

poll_status ==
    /\ IF ~_is_connected THEN Raise("poll_status", 0, "ConnectionError")
       ELSE _send_command("poll_status", 0, PollCommand)
    /\ SubmitFrame

(***************************************************************************)
(* The writer: _communication_loop.                                        *)
(***************************************************************************)
OtherThan(kind) ==
    CASE kind = "comm" -> UNCHANGED << resp, proc, poll >>
      [] kind = "resp" -> UNCHANGED << comm, proc, poll >>
      [] kind = "proc" -> UNCHANGED << comm, resp, poll >>
      [] kind = "poll" -> UNCHANGED << comm, resp, proc >>

\* while self._running: false, the thread ends
comm_exit(g) ==
    /\ comm[g].pc = "loop"
    /\ ~_running
    /\ comm' = [comm EXCEPT ![g].pc = "dead"]
    /\ OtherThan("comm")
    /\ UNCHANGED << driver, client, last_op, stopped, call, accepted, written, rx, cb_log,
                    decoded, sent, eb_starts, starts, faults >>

\* a writer whose connection test is inverted
comm_enter_inverted(g) ==
    /\ comm[g].pc = "loop"
    /\ _running
    /\ ~_is_connected
    /\ comm' = [comm EXCEPT ![g].pc = "get"]
    /\ OtherThan("comm")
    /\ UNCHANGED << driver, client, last_op, stopped, call, accepted, written, rx,
                    cb_log, decoded, sent, eb_starts, starts, faults >>

\* running and connected: on to cmd_queue.get(); not connected: sleeps and
\* evaluates the loop condition again
comm_enter(g) ==
    /\ comm[g].pc = "loop"
    /\ _running
    /\ _is_connected
    /\ comm' = [comm EXCEPT ![g].pc = "get"]
    /\ OtherThan("comm")
    /\ UNCHANGED << driver, client, last_op, stopped, call, accepted, written, rx, cb_log,
                    decoded, sent, eb_starts, starts, faults >>

\* a queue that hands out the element put last
QueueGetLast(queue) ==
    [item |-> queue[Len(queue)], rest |-> SubSeq(queue, 1, Len(queue) - 1)]

\* the element Queue.get() takes and the queue it leaves
QueueGet(queue) == [item |-> Head(queue), rest |-> Tail(queue)]

\* command = self.cmd_queue.get(): blocks, with no timeout, while empty
comm_get(g) ==
    /\ comm[g].pc = "get"
    /\ cmd_queue # <<>>
    /\ comm' = [comm EXCEPT ![g] = [pc |-> "write", command |-> QueueGet(cmd_queue).item]]
    /\ cmd_queue' = QueueGet(cmd_queue).rest
    /\ OtherThan("comm")
    /\ UNCHANGED << _running, _polling, _is_connected, serial_is_open,
                    auto_polling, callback, resp_queue, telemetry, thread_ref,
                    client, last_op, stopped, call, accepted, written, rx, cb_log, decoded, sent, eb_starts,
                    starts, faults >>

\* what serial.write(command) can do: on a closed port it raises
WriteResults ==
    IF ~serial_is_open THEN {"raise"}
    ELSE IF faults < MaxFaults THEN {"ok", "short", "raise"}
    ELSE {"ok"}

\* a writer that puts a command back into the queue when its write failed
comm_write_requeues(g, result) ==
    /\ comm[g].pc = "write"
    /\ result \in WriteResults
    /\ written' = Append(written, [id |-> comm[g].command.id,
                                   frame |-> comm[g].command.frame,
                                   result |-> result])
    /\ faults' = IF serial_is_open /\ result # "ok" THEN faults + 1 ELSE faults
    /\ cmd_queue' = IF result # "ok" /\ ~QueueFull(cmd_queue)
                    THEN Append(cmd_queue, comm[g].command) ELSE cmd_queue
    /\ comm' = [comm EXCEPT ![g] = [pc |-> "loop", command |-> <<>>]]
    /\ OtherThan("comm")
    /\ UNCHANGED << _running, _polling, _is_connected, serial_is_open, auto_polling,
                    callback, resp_queue, telemetry, thread_ref, client, last_op,
                    stopped, call, accepted, rx, cb_log, decoded, sent, eb_starts,
                    starts >>

\* a writer without its try block: a write that raises ends the thread
comm_write_unguarded(g, result) ==
    /\ comm[g].pc = "write"
    /\ result \in WriteResults
    /\ written' = Append(written, [id |-> comm[g].command.id,
                                   frame |-> comm[g].command.frame,
                                   result |-> result])
    /\ faults' = IF serial_is_open /\ result # "ok" THEN faults + 1 ELSE faults
    /\ comm' = [comm EXCEPT ![g] = [pc |-> IF result = "raise" THEN "dead" ELSE "loop",
                                    command |-> <<>>]]
    /\ OtherThan("comm")
    /\ UNCHANGED << driver, client, last_op, stopped, call, accepted, rx, cb_log, decoded, sent, eb_starts,
                    starts >>

\* write_len = self.serial.write(command), then the next iteration: a short
\* count is logged, an exception is caught by the handler inside the loop
comm_write(g, result) ==
    /\ comm[g].pc = "write"
    /\ result \in WriteResults
    /\ written' = Append(written, [id |-> comm[g].command.id,
                                   frame |-> comm[g].command.frame,
                                   result |-> result])
    /\ faults' = IF serial_is_open /\ result # "ok" THEN faults + 1 ELSE faults
    /\ comm' = [comm EXCEPT ![g] = [pc |-> "loop", command |-> <<>>]]
    /\ OtherThan("comm")
    /\ UNCHANGED << driver, client, last_op, stopped, call, accepted, rx, cb_log, decoded, sent, eb_starts,
                    starts >>

(***************************************************************************)
(* The reader: _response_loop.                                             *)
(***************************************************************************)
resp_exit(g) ==
    /\ resp[g].pc = "loop"
    /\ ~_running
    /\ resp' = [resp EXCEPT ![g].pc = "dead"]
    /\ OtherThan("resp")
    /\ UNCHANGED << driver, client, last_op, stopped, call, accepted, written, rx, cb_log,
                    decoded, sent, eb_starts, starts, faults >>

\* running and connected: on to serial.read(40); not connected: waits a cycle
resp_enter(g) ==
    /\ resp[g].pc = "loop"
    /\ _running
    /\ _is_connected
    /\ resp' = [resp EXCEPT ![g].pc = "read"]
    /\ OtherThan("resp")
    /\ UNCHANGED << driver, client, last_op, stopped, call, accepted, written, rx, cb_log,
                    decoded, sent, eb_starts, starts, faults >>

\* response = self.serial.read(40) returns the n bytes that arrived within
\* the timeout (n = 0: none); an empty response goes back to the loop
resp_read(g, n) ==
    /\ resp[g].pc = "read"
    /\ serial_is_open
    /\ n \in 0..READ_SIZE
    /\ n <= Len(rx)
    /\ resp' = [resp EXCEPT ![g] = IF n = 0 THEN [pc |-> "loop", response |-> <<>>]
                                   ELSE [pc |-> "put", response |-> SubSeq(rx, 1, n)]]
    /\ rx' = SubSeq(rx, n + 1, Len(rx))
    /\ eb_starts' = IF n > 0 /\ rx[1] = HEADER0
                    THEN eb_starts \cup {Len(sent.garbage) + Len(Flatten(sent.frames))
                                            - Len(rx) + 1}
                    ELSE eb_starts
    /\ OtherThan("resp")
    /\ UNCHANGED << driver, client, last_op, stopped, call, accepted, written, cb_log,
                    decoded, sent, starts, faults >>

\* self.serial.read(40) raises: always on a closed port, as a fault otherwise
resp_read_raises(g) ==
    /\ resp[g].pc = "read"
    /\ ~serial_is_open \/ faults < MaxFaults
    /\ faults' = IF serial_is_open THEN faults + 1 ELSE faults
    /\ resp' = [resp EXCEPT ![g] = [pc |-> "loop", response |-> <<>>]]
    /\ OtherThan("resp")
    /\ UNCHANGED << driver, client, last_op, stopped, call, accepted, written, rx, cb_log,
                    decoded, sent, eb_starts, starts >>

\* self.resp_queue.put(response): blocks, with no timeout, while full
resp_put(g) ==
    /\ resp[g].pc = "put"
    /\ ~QueueFull(resp_queue)
    /\ resp_queue' = Append(resp_queue, resp[g].response)
    /\ resp' = [resp EXCEPT ![g] = [pc |-> "loop", response |-> <<>>]]
    /\ OtherThan("resp")
    /\ UNCHANGED << _running, _polling, _is_connected, serial_is_open,
                    auto_polling, callback, cmd_queue, telemetry, thread_ref,
                    client, last_op, stopped, call, accepted, written, rx, cb_log, decoded, sent, eb_starts,
                    starts, faults >>

(***************************************************************************)
(* The decoder: _process_response.                                         *)
(***************************************************************************)
proc_exit(g) ==
    /\ proc[g].pc = "loop"
    /\ ~_running
    /\ proc' = [proc EXCEPT ![g].pc = "dead"]
    /\ OtherThan("proc")
    /\ UNCHANGED << driver, client, last_op, stopped, call, accepted, written, rx, cb_log,
                    decoded, sent, eb_starts, starts, faults >>

\* running and resp_queue not empty: on to resp_queue.get(); empty: waits
proc_enter(g) ==
    /\ proc[g].pc = "loop"
    /\ _running
    /\ resp_queue # <<>>
    /\ proc' = [proc EXCEPT ![g].pc = "get"]
    /\ OtherThan("proc")
    /\ UNCHANGED << driver, client, last_op, stopped, call, accepted, written, rx, cb_log,
                    decoded, sent, eb_starts, starts, faults >>

\* a deque that grows without bound
DequeAppendUnbounded(deque, x) == Append(deque, x)

\* self.telemetry.append(x) on a deque with maxlen
DequeAppend(deque, x) ==
    IF Len(deque) >= MaxTelemetry THEN Append(Tail(deque), x) ELSE Append(deque, x)

\* chunk = self.resp_queue.get(): blocks while the queue is empty; the
\* thread holds the chunk from here on
proc_get(g) ==
    /\ proc[g].pc = "get"
    /\ resp_queue # <<>>
    /\ resp_queue' = QueueGet(resp_queue).rest
    /\ proc' = [proc EXCEPT ![g].pc = "pass", ![g].chunk = QueueGet(resp_queue).item]
    /\ OtherThan("proc")
    /\ UNCHANGED << _running, _polling, _is_connected, serial_is_open,
                    auto_polling, callback, cmd_queue, telemetry, thread_ref, client,
                    last_op, stopped, call, accepted, written, rx, cb_log, decoded,
                    sent, eb_starts, starts, faults >>

\* one pass over the buffer with the chunk in hand; a checksum-valid
\* telemetry frame goes through _process_data, everything else ends the pass
proc_pass(g) ==
    /\ proc[g].pc = "pass"
    /\ LET pass == DecodePass(proc[g].buffer, proc[g].chunk)
           record == _process_data(pass.frame, Len(decoded) + 1)
       IN IF pass.kind # "telemetry"
          THEN /\ proc' = [proc EXCEPT ![g].pc = "loop", ![g].buffer = pass.buffer,
                                       ![g].chunk = <<>>]
               /\ UNCHANGED decoded
          ELSE /\ decoded' = Append(decoded, pass.frame)
               /\ proc' = [proc EXCEPT ![g] = [pc |-> "deliver",
                                buffer |-> pass.buffer, chunk |-> <<>>,
                                cur |-> <<record>>, last |-> <<>>]]
    /\ OtherThan("proc")
    /\ UNCHANGED << driver, client, last_op, stopped, call, accepted, written, rx,
                    cb_log, sent, eb_starts, starts, faults >>

\* if self.callback: last_telemetry is read from the store (the record
\* itself when the store is empty); without a callback the record is
\* appended to the store
proc_deliver(g) ==
    /\ proc[g].pc = "deliver"
    /\ IF callback
       THEN /\ proc' = [proc EXCEPT ![g].pc = "call",
                                    ![g].last = IF telemetry # <<>>
                                                THEN <<telemetry[Len(telemetry)]>>
                                                ELSE proc[g].cur]
            /\ UNCHANGED telemetry
       ELSE /\ telemetry' = DequeAppend(telemetry, proc[g].cur[1])
            /\ proc' = [proc EXCEPT ![g].pc = "loop", ![g].cur = <<>>]
    /\ OtherThan("proc")
    /\ UNCHANGED << _running, _polling, _is_connected, serial_is_open,
                    auto_polling, callback, cmd_queue, resp_queue, thread_ref,
                    client, last_op, stopped, call, accepted, written, rx, cb_log,
                    decoded, sent, eb_starts, starts, faults >>

\* self.callback(telemetry, last_telemetry) is entered
proc_call(g) ==
    /\ proc[g].pc = "call"
    /\ cb_log' = Append(cb_log, <<proc[g].cur[1], proc[g].last[1]>>)
    /\ proc' = [proc EXCEPT ![g].pc = "callback"]
    /\ OtherThan("proc")
    /\ UNCHANGED << driver, client, last_op, stopped, call, accepted, written, rx,
                    decoded, sent, eb_starts, starts, faults >>

\* the callback returns and self.telemetry.append(telemetry) runs
proc_callback_returns(g) ==
    /\ proc[g].pc = "callback"
    /\ telemetry' = DequeAppend(telemetry, proc[g].cur[1])
    /\ proc' = [proc EXCEPT ![g] = [pc |-> "loop", buffer |-> proc[g].buffer,
                                    chunk |-> <<>>, cur |-> <<>>, last |-> <<>>]]
    /\ OtherThan("proc")
    /\ UNCHANGED << _running, _polling, _is_connected, serial_is_open,
                    auto_polling, callback, cmd_queue, resp_queue, thread_ref,
                    client, last_op, stopped, call, accepted, written, rx, cb_log, decoded, sent, eb_starts,
                    starts, faults >>

\* a decoder that appends the record although the callback raised
proc_callback_raises_appends(g) ==
    /\ proc[g].pc = "callback"
    /\ faults < MaxFaults
    /\ faults' = faults + 1
    /\ telemetry' = DequeAppend(telemetry, proc[g].cur[1])
    /\ proc' = [proc EXCEPT ![g] = [pc |-> "loop", buffer |-> proc[g].buffer,
                                    chunk |-> <<>>, cur |-> <<>>, last |-> <<>>]]
    /\ OtherThan("proc")
    /\ UNCHANGED << _running, _polling, _is_connected, serial_is_open,
                    auto_polling, callback, cmd_queue, resp_queue, thread_ref,
                    client, last_op, stopped, call, accepted, written, rx, cb_log,
                    decoded, sent, eb_starts, starts >>

\* the callback raises: the handler logs it and nothing is appended
proc_callback_raises(g) ==
    /\ proc[g].pc = "callback"
    /\ faults < MaxFaults
    /\ faults' = faults + 1
    /\ proc' = [proc EXCEPT ![g] = [pc |-> "loop", buffer |-> proc[g].buffer,
                                    chunk |-> <<>>, cur |-> <<>>, last |-> <<>>]]
    /\ OtherThan("proc")
    /\ UNCHANGED << driver, client, last_op, stopped, call, accepted, written, rx, cb_log,
                    decoded, sent, eb_starts, starts >>

(***************************************************************************)
(* The poller: _polling_loop.                                              *)
(***************************************************************************)
poll_exit(g) ==
    /\ poll[g].pc = "loop"
    /\ ~(_polling /\ _running)
    /\ poll' = [poll EXCEPT ![g].pc = "dead"]
    /\ OtherThan("poll")
    /\ UNCHANGED << driver, client, last_op, stopped, call, accepted, written, rx, cb_log,
                    decoded, sent, eb_starts, starts, faults >>

\* polling, running and connected: on to self.poll_status(); not connected:
\* sleeps
poll_enter(g) ==
    /\ poll[g].pc = "loop"
    /\ _polling /\ _running
    /\ _is_connected
    /\ poll' = [poll EXCEPT ![g].pc = "poll"]
    /\ OtherThan("poll")
    /\ UNCHANGED << driver, client, last_op, stopped, call, accepted, written, rx, cb_log,
                    decoded, sent, eb_starts, starts, faults >>

\* self.poll_status(): its ConnectionError and a full queue are both survived
poll_send(g) ==
    /\ poll[g].pc = "poll"
    /\ IF ~_is_connected THEN Raise("poll_status", 0, "ConnectionError")
       ELSE _send_command("poll_status", 0, PollCommand)
    /\ poll' = [poll EXCEPT ![g].pc = "loop"]
    /\ OtherThan("poll")
    /\ UNCHANGED << _running, _polling, _is_connected, serial_is_open,
                    auto_polling, callback, resp_queue, telemetry, thread_ref,
                    client, last_op, stopped, written, rx, cb_log, decoded, sent, eb_starts, starts, faults >>

(***************************************************************************)
(* What the device sends.                                                  *)
(***************************************************************************)
\* a telemetry frame around 28 payload bytes, with the device's checksum
TelemetryFrame(payload) ==
    <<HEADER0, HEADER1, POLL_CODE>> \o payload
        \o <<(POLL_CODE + SumBytes(payload)) % 256>>

Zeros(n) == [i \in 1..n |-> 0]

\* the wheel at rest
FrameRest == TelemetryFrame(Zeros(28))

\* the wheel at 100 rpm after a speed command, its command counter at 0xEB
FrameSpin ==
    TelemetryFrame(<<SPEED_CODE>> \o PackF32(100) \o PackF32(100) \o Zeros(8)
                   \o <<7, HEADER0, 0>> \o Zeros(8))

\* the 8-byte acknowledgment of a speed command
FrameAck == _build_speed_command(100)

\* the header EB 90 DD followed by 29 zero bytes: its last byte is 0x00
FrameZero == <<HEADER0, HEADER1, POLL_CODE>> \o Zeros(29)

(***************************************************************************)
(* The steps of the threads, over all generations.                         *)
(***************************************************************************)
CommExit == \E g \in Gens : comm_exit(g)

CommEnter == \E g \in Gens : comm_enter(g)

CommGet == \E g \in Gens : comm_get(g)

CommWrite == \E g \in Gens : \E result \in {"ok", "short", "raise"} : comm_write(g, result)

RespExit == \E g \in Gens : resp_exit(g)

RespEnter == \E g \in Gens : resp_enter(g)

\* a read that times out with nothing received
RespTimeout == \E g \in Gens : resp_read(g, 0)

RespReadRaises == \E g \in Gens : resp_read_raises(g)

RespPut == \E g \in Gens : resp_put(g)

ProcExit == \E g \in Gens : proc_exit(g)

ProcEnter == \E g \in Gens : proc_enter(g)

ProcGet == \E g \in Gens : proc_get(g)

ProcPass == \E g \in Gens : proc_pass(g)

ProcDeliver == \E g \in Gens : proc_deliver(g)

ProcCall == \E g \in Gens : proc_call(g)

ProcCallbackReturns == \E g \in Gens : proc_callback_returns(g)

ProcCallbackRaises == \E g \in Gens : proc_callback_raises(g)

PollExit == \E g \in Gens : poll_exit(g)

\* a tick of the poller is taken only while calls are left
PollEnter(limit) == call.n < limit /\ \E g \in Gens : poll_enter(g)

PollSend == \E g \in Gens : poll_send(g)

(***************************************************************************)
(* The lifecycle specification: the owner's calls, submissions and every   *)
(* thread, on a line on which the device is silent.                        *)
(***************************************************************************)
Init ==
    /\ InitDriver
    /\ auto_polling \in BOOLEAN
    /\ callback = FALSE
    /\ rx = <<>>
    /\ sent = [garbage |-> <<>>, frames |-> <<>>]

Connect == \E opens \in BOOLEAN : connect(opens)

SetSpeed == call.n < MaxCalls /\ set_speed(100)

PollStatus == call.n < MaxCalls /\ poll_status

Loops ==
    \/ CommExit \/ CommEnter \/ CommGet \/ CommWrite
    \/ RespExit \/ RespEnter \/ RespTimeout \/ RespReadRaises
    \/ ProcExit
    \/ PollExit \/ PollEnter(MaxCalls) \/ PollSend

Next ==
    \/ Connect \/ start_begin \/ start_resp \/ start_proc \/ start_poll \/ start_return
    \/ stop_begin \/ stop_return
    \/ disconnect_begin \/ disconnect_return
    \/ SetSpeed \/ PollStatus
    \/ Loops

Spec == Init /\ [][Next]_vars

\* the writer and the poller are threads of their own and a join returns
\* once its thread has ended: each of these steps is taken when it can be
FairSpec ==
    /\ Spec
    /\ WF_vars(CommExit) /\ WF_vars(CommWrite)
    /\ WF_vars(PollExit) /\ WF_vars(PollSend)
    /\ WF_vars(disconnect_return)

(***************************************************************************)
(* A running driver: the state after connect() and start(), the            *)
(* submissions, the writer and the poller.                                 *)
(***************************************************************************)
RunInit ==
    /\ auto_polling \in BOOLEAN
    /\ _running = TRUE
    /\ _polling = auto_polling
    /\ _is_connected = TRUE
    /\ serial_is_open = TRUE
    /\ callback = FALSE
    /\ cmd_queue = <<>>
    /\ resp_queue = <<>>
    /\ telemetry = <<>>
    /\ thread_ref = [k \in {"comm", "resp", "proc", "poll"} |->
                        IF k = "poll" /\ ~auto_polling THEN 0 ELSE 1]
    /\ comm = <<[pc |-> "loop", command |-> <<>>]>>
    /\ resp = <<[pc |-> "loop", response |-> <<>>]>>
    /\ proc = <<[pc |-> "loop", buffer |-> <<>>, chunk |-> <<>>, cur |-> <<>>, last |-> <<>>]>>
    /\ poll = <<IF auto_polling THEN [pc |-> "loop"] ELSE NoThread>>
    /\ client = "idle"
    /\ last_op = <<"start", TRUE>>
    /\ stopped = FALSE
    /\ call = [n |-> 0, op |-> "none", arg |-> 0, result |-> "none"]
    /\ accepted = <<>>
    /\ written = <<>>
    /\ rx = <<>>
    /\ cb_log = <<>>
    /\ decoded = <<>>
    /\ sent = [garbage |-> <<>>, frames |-> <<>>]
    /\ eb_starts = {}
    /\ starts = 1
    /\ faults = 0

RunSetSpeed == call.n < MaxRunCalls /\ set_speed(100)

RunSetTorque == call.n < MaxRunCalls /\ set_torque(30)

RunSetCurrent == call.n < MaxRunCalls /\ set_current(-CURRENT_LIMIT)

RunPollStatus == call.n < MaxRunCalls /\ poll_status

Writer == CommEnter \/ CommGet \/ CommWrite

RunNext ==
    \/ RunSetSpeed \/ RunSetTorque \/ RunSetCurrent \/ RunPollStatus
    \/ CommEnter \/ CommGet \/ CommWrite
    \/ PollEnter(MaxRunCalls) \/ PollSend

RunSpec == RunInit /\ [][RunNext]_vars

\* the writer is a thread of its own: when it can take a step it takes it
FairRunSpec == RunSpec /\ WF_vars(Writer)

(***************************************************************************)
(* The submission calls alone, over the values around the limits.          *)
(***************************************************************************)
Around(limit) ==
    {-limit - 950, -limit - 1, -limit, -30, -1, 0, 30, limit, limit + 1, limit + 950}

CmdSetSpeed == call.n < MaxCmdCalls /\ \E speed \in Around(SPEED_LIMIT) : set_speed(speed)

CmdSetTorque == call.n < MaxCmdCalls /\ \E torque \in Around(TORQUE_LIMIT) : set_torque(torque)

CmdSetCurrent ==
    call.n < MaxCmdCalls /\ \E current \in Around(CURRENT_LIMIT) : set_current(current)

CmdPollStatus == call.n < MaxCmdCalls /\ poll_status

CmdNext == Connect \/ CmdSetSpeed \/ CmdSetTorque \/ CmdSetCurrent \/ CmdPollStatus

CmdSpec == Init /\ [][CmdNext]_vars

(***************************************************************************)
(* The submission calls over the values around the limits, with a started  *)
(* driver whose writer sends what was queued.                              *)
(***************************************************************************)
FrameNext == CmdNext \/ start_begin \/ start_resp \/ start_proc \/ start_poll \/ start_return
    \/ CommEnter \/ CommGet \/ CommWrite

FrameSpec == Init /\ [][FrameNext]_vars

(***************************************************************************)
(* The polling thread: a driver that is connected and started, an owner    *)
(* who only calls set_speed, the writer and the poller.                    *)
(***************************************************************************)
PollSetSpeed == call.n < MaxRunCalls /\ set_speed(100)

PollNext ==
    \/ Connect \/ start_begin \/ start_resp \/ start_proc \/ start_poll \/ start_return
    \/ PollSetSpeed
    \/ CommEnter \/ CommGet \/ CommWrite
    \/ PollEnter(MaxRunCalls) \/ PollSend

PollSpec == Init /\ [][PollNext]_vars

(***************************************************************************)
(* The receive path of a running driver: the reader cuts what the device   *)
(* sent into chunks of any size and the decoder takes them one by one.     *)
(***************************************************************************)
\* the bytes on the line
Stream(s) == s.garbage \o Flatten(s.frames)

\* the byte with bit b inverted
FlipBit(byte, b) ==
    IF (byte \div Pow2(b)) % 2 = 1 THEN byte - Pow2(b) ELSE byte + Pow2(b)

\* the frame with bit b of its k-th byte inverted
Flip(frame, k, b) == [frame EXCEPT ![k] = FlipBit(frame[k], b)]

\* frame sequences without damage
CleanStreams ==
    { [kind |-> "clean", garbage |-> <<>>, frames |-> fs] :
        fs \in { <<FrameRest>>, <<FrameSpin>>, <<FrameAck, FrameRest>>,
                 <<FrameRest, FrameAck>>, <<FrameRest, FrameSpin>>,
                 <<FrameRest, FrameSpin, FrameRest>> } }

\* byte sequences without the marker
Garbage == { <<7>>, <<HEADER0>>, <<HEADER1, HEADER0>>, <<HEADER0, 7, HEADER1>> }

\* a telemetry frame after garbage
GarbageStreams ==
    { [kind |-> "garbage", garbage |-> g, frames |-> <<f>>] :
        g \in Garbage, f \in {FrameRest, FrameSpin} }

\* a telemetry frame with one bit inverted
FlippedStreams ==
    { [kind |-> "flipped", garbage |-> <<>>, frames |-> <<Flip(FrameSpin, k, b)>>] :
        k \in 1..TELEMETRY_LEN, b \in 0..7 }

\* the frame of 29 zero bytes after the header
ZeroStreams == { [kind |-> "zero", garbage |-> <<>>, frames |-> <<FrameZero>>] }

DecInit ==
    /\ sent \in CleanStreams \cup GarbageStreams \cup FlippedStreams \cup ZeroStreams
    /\ rx = Stream(sent)
    /\ auto_polling = FALSE
    /\ _running = TRUE
    /\ _polling = FALSE
    /\ _is_connected = TRUE
    /\ serial_is_open = TRUE
    /\ callback = TRUE
    /\ cmd_queue = <<>>
    /\ resp_queue = <<>>
    /\ telemetry = <<>>
    /\ thread_ref = [k \in {"comm", "resp", "proc", "poll"} |->
                        IF k = "poll" THEN 0 ELSE 1]
    /\ comm = <<[pc |-> "loop", command |-> <<>>]>>
    /\ resp = <<[pc |-> "loop", response |-> <<>>]>>
    /\ proc = <<[pc |-> "loop", buffer |-> <<>>, chunk |-> <<>>, cur |-> <<>>, last |-> <<>>]>>
    /\ poll = <<NoThread>>
    /\ client = "idle"
    /\ last_op = <<"start", TRUE>>
    /\ stopped = FALSE
    /\ call = [n |-> 0, op |-> "none", arg |-> 0, result |-> "none"]
    /\ accepted = <<>>
    /\ written = <<>>
    /\ cb_log = <<>>
    /\ decoded = <<>>
    /\ eb_starts = {}
    /\ starts = 1
    /\ faults = 0

\* the reader reads on while bytes are pending and the decoder has caught up
DecRespEnter ==
    /\ rx # <<>>
    /\ resp_queue = <<>>
    /\ \A g \in Gens : proc[g].pc = "loop"
    /\ RespEnter

DecRespRead == \E g \in Gens : \E n \in 1..READ_SIZE : resp_read(g, n)

DecNext ==
    \/ DecRespEnter \/ DecRespRead \/ RespPut
    \/ ProcEnter \/ ProcGet \/ ProcPass \/ ProcDeliver \/ ProcCall
    \/ ProcCallbackReturns

DecSpec == DecInit /\ [][DecNext]_vars

(***************************************************************************)
(* The receive path with a callback that can raise.                        *)
(***************************************************************************)
CbNext == DecNext \/ ProcCallbackRaises

CbSpec == DecInit /\ [][CbNext]_vars

(***************************************************************************)
(* The receive path after a damaged frame: a frame with one bit inverted    *)
(* behind its marker, followed by a valid telemetry frame.                 *)
(***************************************************************************)
\* the state after connect() and start() with the bytes of one of the
\* streams on the line
RxInit(streams, callbacks) ==
    /\ sent \in streams
    /\ rx = Stream(sent)
    /\ callback \in callbacks
    /\ auto_polling = FALSE
    /\ _running = TRUE
    /\ _polling = FALSE
    /\ _is_connected = TRUE
    /\ serial_is_open = TRUE
    /\ cmd_queue = <<>>
    /\ resp_queue = <<>>
    /\ telemetry = <<>>
    /\ thread_ref = [k \in {"comm", "resp", "proc", "poll"} |->
                        IF k = "poll" THEN 0 ELSE 1]
    /\ comm = <<[pc |-> "loop", command |-> <<>>]>>
    /\ resp = <<[pc |-> "loop", response |-> <<>>]>>
    /\ proc = <<[pc |-> "loop", buffer |-> <<>>, chunk |-> <<>>, cur |-> <<>>, last |-> <<>>]>>
    /\ poll = <<NoThread>>
    /\ client = "idle"
    /\ last_op = <<"start", TRUE>>
    /\ stopped = FALSE
    /\ call = [n |-> 0, op |-> "none", arg |-> 0, result |-> "none"]
    /\ accepted = <<>>
    /\ written = <<>>
    /\ cb_log = <<>>
    /\ decoded = <<>>
    /\ eb_starts = {}
    /\ starts = 1
    /\ faults = 0

\* an acknowledgment or a telemetry frame with one bit inverted behind the
\* marker
Damaged ==
    { Flip(FrameAck, k, b) : k \in 3..SHORT_LEN, b \in {0, 7} }
        \cup { Flip(FrameSpin, k, b) : k \in 3..TELEMETRY_LEN, b \in {0, 7} }

CorruptStreams ==
    { [kind |-> "corrupt", garbage |-> <<>>, frames |-> <<bad, FrameRest>>] :
        bad \in Damaged }

CorruptInit == RxInit(CorruptStreams, {TRUE})

CorruptSpec == CorruptInit /\ [][DecNext]_vars

(***************************************************************************)
(* The telemetry store: two or three valid telemetry frames, a driver with *)
(* or without a callback, a callback that can raise.                       *)
(***************************************************************************)
StoreStreams ==
    { [kind |-> "clean", garbage |-> <<>>, frames |-> fs] :
        fs \in { <<FrameRest, FrameSpin>>, <<FrameRest, FrameSpin, FrameRest>> } }

StoreInit == RxInit(StoreStreams, BOOLEAN)

StoreSpec == StoreInit /\ [][CbNext]_vars

(***************************************************************************)
(* The receive path across the lifecycle calls: two telemetry frames are   *)
(* on the line, each read as one chunk, while the owner connects, starts,  *)
(* stops and disconnects.                                                  *)
(***************************************************************************)
ReInit ==
    /\ InitDriver
    /\ auto_polling = FALSE
    /\ callback = TRUE
    /\ sent = [kind |-> "clean", garbage |-> <<>>, frames |-> <<FrameRest, FrameSpin>>]
    /\ rx = Stream(sent)

\* a read that returns one whole frame
ReRespRead == \E g \in Gens : resp_read(g, TELEMETRY_LEN)

ReNext ==
    \/ Connect \/ start_begin \/ start_resp \/ start_proc \/ start_poll \/ start_return
    \/ stop_begin \/ stop_return
    \/ disconnect_begin \/ disconnect_return
    \/ CommExit \/ CommEnter
    \/ RespExit \/ RespEnter \/ ReRespRead \/ RespTimeout \/ RespReadRaises \/ RespPut
    \/ ProcExit \/ ProcEnter \/ ProcGet \/ ProcPass \/ ProcDeliver \/ ProcCall
    \/ ProcCallbackReturns

ReSpec == ReInit /\ [][ReNext]_vars

(***************************************************************************)
(* A running driver with faults: the owner submits speed commands, two     *)
(* telemetry frames arrive one per read, and a write, a read or the        *)
(* callback can fail.                                                      *)
(***************************************************************************)
IsoInit ==
    /\ sent = [kind |-> "clean", garbage |-> <<>>, frames |-> <<FrameRest, FrameSpin>>]
    /\ rx = Stream(sent)
    /\ auto_polling = FALSE
    /\ _running = TRUE
    /\ _polling = FALSE
    /\ _is_connected = TRUE
    /\ serial_is_open = TRUE
    /\ callback = TRUE
    /\ cmd_queue = <<>>
    /\ resp_queue = <<>>
    /\ telemetry = <<>>
    /\ thread_ref = [k \in {"comm", "resp", "proc", "poll"} |->
                        IF k = "poll" THEN 0 ELSE 1]
    /\ comm = <<[pc |-> "loop", command |-> <<>>]>>
    /\ resp = <<[pc |-> "loop", response |-> <<>>]>>
    /\ proc = <<[pc |-> "loop", buffer |-> <<>>, chunk |-> <<>>, cur |-> <<>>, last |-> <<>>]>>
    /\ poll = <<NoThread>>
    /\ client = "idle"
    /\ last_op = <<"start", TRUE>>
    /\ stopped = FALSE
    /\ call = [n |-> 0, op |-> "none", arg |-> 0, result |-> "none"]
    /\ accepted = <<>>
    /\ written = <<>>
    /\ cb_log = <<>>
    /\ decoded = <<>>
    /\ eb_starts = {}
    /\ starts = 1
    /\ faults = 0

\* the reader goes to read only while bytes are pending
IsoRespEnter == rx # <<>> /\ RespEnter

IsoNext ==
    \/ RunSetSpeed
    \/ CommEnter \/ CommGet \/ CommWrite
    \/ IsoRespEnter \/ ReRespRead \/ RespReadRaises \/ RespPut
    \/ ProcEnter \/ ProcGet \/ ProcPass \/ ProcDeliver \/ ProcCall
    \/ ProcCallbackReturns \/ ProcCallbackRaises

IsoSpec == IsoInit /\ [][IsoNext]_vars

\* when proc_pass can be taken: a decoder holds a chunk
ProcPassEnabled == \E g \in Gens : proc[g].pc = "pass"

\* weak fairness of ProcPass, its enabling condition written out
FairProcPass == []<>(~ProcPassEnabled) \/ []<><<ProcPass>>_vars

\* each loop is a thread of its own: a step it can take is taken
FairIsoSpec ==
    /\ IsoSpec
    /\ WF_vars(CommEnter) /\ WF_vars(CommGet) /\ WF_vars(CommWrite)
    /\ WF_vars(IsoRespEnter) /\ WF_vars(ReRespRead) /\ WF_vars(RespPut)
    /\ WF_vars(ProcEnter) /\ WF_vars(ProcGet) /\ FairProcPass
    /\ WF_vars(ProcDeliver) /\ WF_vars(ProcCall) /\ WF_vars(ProcCallbackReturns)

(***************************************************************************)
(* stop() on a driver that is receiving: more telemetry frames are on the   *)
(* line than the raw-byte queue holds, each read as one chunk.             *)
(***************************************************************************)
BusyStreams ==
    { [kind |-> "clean", garbage |-> <<>>, frames |-> fs] :
        fs \in { <<FrameRest, FrameSpin, FrameRest>>,
                 <<FrameRest, FrameSpin, FrameRest, FrameSpin>> } }

BusyInit == RxInit(BusyStreams, BOOLEAN)

BusyNext ==
    \/ stop_begin \/ stop_return
    \/ CommExit \/ CommEnter
    \/ RespExit \/ IsoRespEnter \/ ReRespRead \/ RespPut
    \/ ProcExit \/ ProcEnter \/ ProcGet \/ ProcPass \/ ProcDeliver \/ ProcCall
    \/ ProcCallbackReturns

BusySpec == BusyInit /\ [][BusyNext]_vars

\* everything sent was read and the decoder has caught up
Drained ==
    /\ rx = <<>>
    /\ resp_queue = <<>>
    /\ \A g \in Gens : resp[g].pc = "loop" /\ proc[g].pc = "loop"

(***************************************************************************)
(* Claims checked under Spec.                                              *)
(***************************************************************************)
AnyAlive(pool) == \E g \in DOMAIN pool : Alive(pool[g])

\* C1: once stop() has returned, and until start() is called again, no call
\* of serial.write happens, whatever is queued or submitted meanwhile.
C1_NoWriteAfterStop == [][stopped /\ stopped' => written' = written]_vars

\* C1 witness: stop() has returned after a write, with a command still queued.
C1_Witness ==
    /\ stopped
    /\ client = "idle"
    /\ cmd_queue # <<>>
    /\ written # <<>>
    /\ _is_connected

\* C2: a stop() that is waiting for the threads can always go on without a
\* further submission: either it returns or some thread can take a step.
C2_StopNeverStuck == client = "stop" => (ENABLED stop_return \/ ENABLED Loops)

\* C3: when disconnect() has returned, no thread of the driver is alive.
C3_DisconnectStopsAll ==
    (client = "idle" /\ last_op[1] = "disconnect") =>
        ~(AnyAlive(comm) \/ AnyAlive(resp) \/ AnyAlive(proc) \/ AnyAlive(poll))

\* C6: the frames written are accepted frames, written in the order of their
\* acceptance and each at most once.
C6_WrittenInOrder ==
    \A i \in 1..Len(written) :
        /\ written[i].id \in 1..Len(accepted)
        /\ written[i].frame = accepted[written[i].id]
        /\ i > 1 => written[i - 1].id < written[i].id

\* C6 witness: a poll frame and a speed frame were both written.
C6_Witness ==
    /\ Len(written) >= 2
    /\ written[1].frame # written[2].frame

(***************************************************************************)
(* Claims checked under CmdSpec.                                           *)
(***************************************************************************)
\* the legal values of each command, as the claim states them
LegalValues(op) ==
    CASE op = "set_speed" -> -6050..6050
      [] op = "set_torque" -> -50..50
      [] op = "set_current" -> -1500..1500

\* C4: a set_speed, set_torque or set_current with a value outside the legal
\* range raises the range error and changes nothing but the record of the
\* call; with a value inside the range it does not raise the range error.
C4_RangeChecked ==
    [][(call'.n # call.n /\ call'.op # "poll_status") =>
          IF call'.arg \in LegalValues(call'.op)
          THEN call'.result # "ValueError"
          ELSE /\ call'.result = "ValueError"
               /\ UNCHANGED << driver, threads, client, last_op, stopped, accepted,
                               written, rx, cb_log, decoded, sent, eb_starts, starts,
                               faults >>]_vars

\* C4 witness: a speed just above the limit was refused with a command queued.
C4_Witness ==
    /\ call.op = "set_speed"
    /\ call.arg = 6051
    /\ call.result = "ValueError"
    /\ cmd_queue # <<>>

(***************************************************************************)
(* Claims checked under RunSpec and FairRunSpec.                           *)
(***************************************************************************)
\* the frame a successful call puts into the queue
FrameOf(op, arg) ==
    CASE op = "set_speed" -> _build_speed_command(arg)
      [] op = "set_torque" -> _build_torque_command(arg)
      [] op = "set_current" -> _build_current_command(arg)
      [] op = "poll_status" -> PollCommand

\* C5: a submission returns at once: with the queue at capacity it reports
\* failure and leaves the queue as it is, otherwise it reports success and
\* its frame is the new tail of the queue.
C5_SubmitNeverBlocks ==
    [][call'.n # call.n =>
          IF Len(cmd_queue) = QueueSize
          THEN call'.result = "False" /\ cmd_queue' = cmd_queue
          ELSE /\ call'.result = "True"
               /\ Len(cmd_queue') = Len(cmd_queue) + 1
               /\ SubSeq(cmd_queue', 1, Len(cmd_queue)) = cmd_queue
               /\ cmd_queue'[Len(cmd_queue')].frame = FrameOf(call'.op, call'.arg)]_vars

\* C5 witness: after a refused submission and a dequeue, a submission
\* succeeded and filled the queue again.
C5_Witness ==
    /\ call.result = "True"
    /\ call.n > Len(accepted)
    /\ Len(cmd_queue) = QueueSize
    /\ written # <<>>

IsSpeedFrame(frame) == frame[3] = SPEED_CODE

WrittenTimes(id) == Cardinality({i \in 1..Len(written) : written[i].id = id})

\* C7: on a connected, running driver every accepted set_speed frame is
\* handed to serial.write, once and not more than once.
C7_AcceptedIsWritten ==
    \A id \in 1..(MaxRunCalls + 1) :
        /\ [](WrittenTimes(id) <= 1)
        /\ (id <= Len(accepted) /\ IsSpeedFrame(accepted[id])) ~> (WrittenTimes(id) = 1)

\* C7 witness: an accepted set_speed frame went out in full.
C7_Witness ==
    \E i \in 1..Len(written) :
        IsSpeedFrame(written[i].frame) /\ written[i].result = "ok"

(***************************************************************************)
(* Claims checked under DecSpec.                                           *)
(***************************************************************************)
\* a 32-byte frame EB 90 DD whose last byte is the sum of bytes 2..30 mod 256
ValidTelemetry(frame) ==
    /\ Len(frame) = 32
    /\ SubSeq(frame, 1, 3) = <<235, 144, 221>>
    /\ frame[32] = SumBytes(SubSeq(frame, 3, 31)) % 256

\* the telemetry frames of a stream, in order
TelemetryFrames(frames) == SelectSeq(frames, ValidTelemetry)

\* the frames decoded when the whole stream is one chunk
OneChunkDecoded(stream) ==
    LET pass == DecodePass(<<>>, stream)
    IN IF pass.kind = "telemetry" THEN <<pass.frame>> ELSE <<>>

\* C8: however a stream of valid frames is cut into eb_starts, the frames
\* decoded are its telemetry frames in order, the same as for one chunk.
C8_ChunkIndependent ==
    (Drained /\ sent.kind = "clean") =>
        /\ decoded = TelemetryFrames(sent.frames)
        /\ decoded = OneChunkDecoded(Stream(sent))

\* some chunk began with an 0xEB that lies inside the frame, after its
\* first byte
CutBeforeMarkerByte == \E p \in eb_starts : p > Len(sent.garbage) + 1

\* C9 as stated: after garbage without the marker a valid telemetry frame is
\* decoded, however garbage and frame are cut into chunks.
C9_ResyncAnyCut ==
    (Drained /\ sent.kind = "garbage") => decoded = sent.frames

\* C9 amended: the frame is decoded unless a chunk begins with an 0xEB byte
\* from inside the frame.
C9_ResyncAfterGarbage ==
    (Drained /\ sent.kind = "garbage" /\ ~CutBeforeMarkerByte) =>
        decoded = sent.frames

\* C9 witness: the garbage came in one chunk, the frame in later ones, and
\* the frame was decoded.
C9_Witness ==
    /\ Drained
    /\ sent.kind = "garbage"
    /\ sent.garbage # <<>>
    /\ Len(sent.garbage) + 1 \in eb_starts
    /\ decoded = sent.frames

\* C10: every record given to the callback or kept in the store comes from
\* a valid telemetry frame; a frame with one bit inverted gives no record,
\* the frame itself, arriving whole, gives exactly one.
C10_OnlyValidFrames ==
    /\ \A i \in 1..Len(decoded) : ValidTelemetry(decoded[i])
    /\ Len(cb_log) <= Len(decoded)
    /\ \A i \in 1..Len(cb_log) : cb_log[i][1] = _process_data(decoded[i], i)
    /\ \A i \in 1..Len(telemetry) :
          \E j \in 1..Len(cb_log) : telemetry[i] = cb_log[j][1]
    /\ sent.kind = "flipped" => decoded = <<>> /\ telemetry = <<>>
    /\ (Drained /\ sent.kind = "clean" /\ sent.frames = <<FrameSpin>>
          /\ ~CutBeforeMarkerByte) => Len(cb_log) = 1 /\ Len(telemetry) = 1

\* C10 witness: all of a frame with an inverted payload bit was taken by the
\* decoder, and nothing came out.
C10_Witness ==
    /\ Drained
    /\ sent.kind = "flipped"
    /\ sent.frames[1][9] # FrameSpin[9]
    /\ \A g \in Gens : proc[g].buffer = <<>>
    /\ cb_log = <<>>

\* the numeric fields of a record are all zero
AllZero(record) ==
    /\ \A f \in {"control_target", "flywheel_speed_feedback",
                  "flywheel_current_feedback", "acceleration_feedback"} :
          record[f] = [sign |-> 0, exp |-> 0, frac |-> 0]
    /\ \A f \in {"command_response_count", "telemetry_wheel_command_count",
                  "error_command_count", "motherboard_current", "temperature",
                  "single_motor_status"} : record[f] = 0

\* C11: the frame EB 90 DD followed by 29 zero bytes, once it has arrived,
\* has given one telemetry record, and the numeric fields of it are all zero.
C11_ZeroFrameDecoded ==
    (Drained /\ sent.kind = "zero") =>
        /\ decoded = <<FrameZero>>
        /\ Len(telemetry) = 1
        /\ AllZero(telemetry[1])

(***************************************************************************)
(* Claims checked under CbSpec.                                            *)
(***************************************************************************)
\* the record of the k-th decoded frame
Delivered(k) == _process_data(decoded[k], k)

\* the decoders that hold a decoded record on its way to the callback
Delivering == {g \in Gens : proc[g].pc \in {"deliver", "call"}}

\* C12: the callback is invoked once for every decoded frame, in order, with
\* (current, previous): previous is current itself for the first frame and
\* the record delivered before it for every later one; when the decoder is
\* back in its loop the record delivered last is the newest of the store.
C12_CallbackPairs ==
    /\ Len(cb_log) = Len(decoded) - Cardinality(Delivering)
    /\ \A k \in 1..Len(cb_log) :
          cb_log[k] = << Delivered(k), Delivered(IF k = 1 THEN 1 ELSE k - 1) >>
    /\ (decoded # <<>> /\ \A g \in Gens : proc[g].pc \notin {"deliver", "call", "callback"}) =>
          /\ telemetry # <<>>
          /\ telemetry[Len(telemetry)] = Delivered(Len(decoded))

\* C13: the store never holds more than max_telemetry_size records; they are
\* records of decoded frames, in decode order; and the store changes only
\* by taking the record just delivered at its end, dropping its oldest
\* record, and nothing else, exactly when it was full.
C13_StoreBounded ==
    /\ [](/\ Len(telemetry) <= MaxTelemetry
          /\ \A i \in 1..Len(telemetry) :
                /\ telemetry[i].timestamp \in 1..Len(decoded)
                /\ telemetry[i] = Delivered(telemetry[i].timestamp)
                /\ i > 1 => telemetry[i - 1].timestamp < telemetry[i].timestamp)
    /\ [][telemetry' # telemetry =>
            \E g \in Gens :
                /\ proc[g].pc = "callback"
                /\ proc[g].cur[1] = Delivered(Len(decoded))
                /\ telemetry' = IF Len(telemetry) = MaxTelemetry
                                THEN Append(Tail(telemetry), proc[g].cur[1])
                                ELSE Append(telemetry, proc[g].cur[1])]_vars

\* C13 witness: a third record went into a store of two, and the first
\* record is the one that left.
C13_Witness ==
    /\ Len(decoded) > MaxTelemetry
    /\ Len(telemetry) = MaxTelemetry
    /\ telemetry[1].timestamp = Len(decoded) - MaxTelemetry + 1
    /\ telemetry[Len(telemetry)].timestamp = Len(decoded)

(***************************************************************************)
(* Claims checked under ReSpec.                                            *)
(***************************************************************************)
\* the decoder threads that are inside the callback
InCallback == {g \in Gens : proc[g].pc = "callback"}

\* C14: at no time are two invocations of the callback in progress, and the
\* callbacks are invoked in the order of the frames in the stream.
C14_CallbacksSerial ==
    /\ Cardinality(InCallback) <= 1
    /\ \A k \in 1..Len(decoded) : decoded[k] = sent.frames[k]

(***************************************************************************)
(* Claims checked under FrameSpec.                                         *)
(***************************************************************************)
\* 8 bytes: EB 90, a command code, four payload bytes (zero for a poll) and
\* the sum of code and payload modulo 256
WellFormed(frame) ==
    /\ Len(frame) = 8
    /\ frame[1] = 235 /\ frame[2] = 144
    /\ frame[3] \in {209, 210, 211, 221}
    /\ frame[3] = 221 => SubSeq(frame, 4, 7) = <<0, 0, 0, 0>>
    /\ frame[8] = (frame[3] + frame[4] + frame[5] + frame[6] + frame[7]) % 256

\* the command code of each call
CodeOf(op) ==
    CASE op = "set_current" -> 209
      [] op = "set_speed" -> 210
      [] op = "set_torque" -> 211
      [] op = "poll_status" -> 221

\* C15: every frame in the command queue and every frame written is a
\* well-formed 8-byte frame; the frame a call has queued carries the code of
\* the call; torque 30 gives EB 90 D3 41 F0 00 00 04, torque -30 gives
\* EB 90 D3 C1 F0 00 00 84 and a poll gives EB 90 DD 00 00 00 00 DD.
C15_FramesWellFormed ==
    /\ \A i \in 1..Len(cmd_queue) : WellFormed(cmd_queue[i].frame)
    /\ \A i \in 1..Len(written) : WellFormed(written[i].frame)
    /\ call.result = "True" =>
          LET frame == accepted[Len(accepted)]
          IN /\ frame[3] = CodeOf(call.op)
             /\ (call.op = "set_torque" /\ call.arg = 30) =>
                   frame = <<235, 144, 211, 65, 240, 0, 0, 4>>
             /\ (call.op = "set_torque" /\ call.arg = -30) =>
                   frame = <<235, 144, 211, 193, 240, 0, 0, 132>>
             /\ call.op = "poll_status" =>
                   frame = <<235, 144, 221, 0, 0, 0, 0, 221>>

\* C15 witness: the frame of torque -30 was written and a poll frame is
\* in the queue.
C15_Witness ==
    /\ \E i \in 1..Len(written) :
          written[i].frame = <<235, 144, 211, 193, 240, 0, 0, 132>>
    /\ \E i \in 1..Len(cmd_queue) :
          cmd_queue[i].frame = <<235, 144, 221, 0, 0, 0, 0, 221>>

(***************************************************************************)
(* Claims about the lifecycle calls, checked under Spec.                   *)
(***************************************************************************)
\* C16: a connect() that could not open the transport has raised
\* ConnectionError, that is, it has not returned a value, and the driver is
\* not connected.
C16_ConnectFailureRaises ==
    (last_op[1] = "connect" /\ last_op[3] = "failed") =>
        /\ last_op[2] \notin BOOLEAN
        /\ ~_is_connected

\* a step in which connect() returns
ConnectReturns == last_op'[1] = "connect" /\ last_op' # last_op

\* C17: connect() on a connected driver returns True, calls serial.open()
\* not at all and changes nothing of the driver; on a disconnected driver
\* whose transport opens it returns True and marks the driver connected,
\* with the port open, having called serial.open() once if the port was
\* closed and not at all if it was open.
C17_ConnectIdempotent ==
    [][ConnectReturns =>
          IF _is_connected
          THEN /\ last_op' = <<"connect", TRUE, "already">>
               /\ UNCHANGED << driver, threads >>
          ELSE /\ last_op'[3] = (IF serial_is_open THEN "kept"
                                 ELSE IF last_op'[2] THEN "opened" ELSE "failed")
               /\ last_op'[2] => _is_connected' /\ serial_is_open'
               /\ UNCHANGED << _running, _polling, cmd_queue, resp_queue, telemetry,
                               thread_ref, threads >>]_vars

\* C17 witness: connect() has returned on a driver that was connected and
\* running, with a command in the queue.
C17_Witness ==
    /\ last_op = <<"connect", TRUE, "already">>
    /\ _running
    /\ cmd_queue # <<>>
    /\ AnyAlive(comm)

\* disconnect() was called on a driver that was never started, or is not
\* connected, or whose last lifecycle call was a disconnect()
EasyDisconnect ==
    /\ client = "disconnect"
    /\ starts = 0 \/ ~_is_connected \/ last_op[1] = "disconnect"

\* C18: when disconnect() has returned the driver is not connected, not
\* running and its port is closed; and a disconnect() of a driver that was
\* never started, or is not connected, or was disconnected by the call
\* before, returns.
C18_DisconnectRepeatable ==
    /\ []((client = "idle" /\ last_op[1] = "disconnect") =>
            (~_is_connected /\ ~_running /\ ~_polling /\ ~serial_is_open))
    /\ (EasyDisconnect ~> (client = "idle" /\ last_op[1] = "disconnect"))

\* C18 witness: a second disconnect() in a row is under way on a driver
\* that had been started and connected.
C18_Witness ==
    /\ client = "disconnect"
    /\ last_op[1] = "disconnect"
    /\ starts > 0
    /\ written # <<>>

\* a step in which a call of poll_status() returns or raises
PollStatusReturns == call'.n # call.n /\ call'.op = "poll_status"

\* C19: poll_status() on a driver that is not connected raises
\* ConnectionError and leaves the command queue as it is; on a connected
\* driver it puts the frame EB 90 DD 00 00 00 00 DD at the tail of the queue
\* and returns True, or, the queue being full, returns False and leaves it.
C19_PollStatusChecked ==
    [][PollStatusReturns =>
          IF ~_is_connected
          THEN call'.result = "ConnectionError" /\ cmd_queue' = cmd_queue
          ELSE IF Len(cmd_queue) = QueueSize
          THEN call'.result = "False" /\ cmd_queue' = cmd_queue
          ELSE /\ call'.result = "True"
               /\ Len(cmd_queue') = Len(cmd_queue) + 1
               /\ SubSeq(cmd_queue', 1, Len(cmd_queue)) = cmd_queue
               /\ cmd_queue'[Len(cmd_queue')].frame
                     = <<235, 144, 221, 0, 0, 0, 0, 221>>]_vars

\* C19 witness: poll_status() raised on a driver that had been connected
\* and still has a command in its queue.
C19_Witness ==
    /\ call.op = "poll_status"
    /\ call.result = "ConnectionError"
    /\ cmd_queue # <<>>
    /\ last_op[1] = "disconnect"

(***************************************************************************)
(* Claims checked under PollSpec.                                          *)
(***************************************************************************)
\* a step in which a polling thread comes back from self.poll_status()
PollTick == \E g \in Gens : poll[g].pc = "poll" /\ poll'[g].pc # "poll"

\* C20: without auto-polling there is no polling thread and, the owner not
\* calling poll_status(), no poll frame is ever accepted; with auto-polling
\* a driver whose start() has returned has a polling thread, and each of
\* its ticks, the driver being connected, puts one poll frame at the tail
\* of the command queue, or, the queue being full, leaves the queue as it
\* is; either way the thread is back in its loop.
C20_PollingOnlyIfEnabled ==
    /\ [](IF auto_polling
          THEN (starts > 0 /\ client = "idle") => \E g \in Gens : Alive(poll[g])
          ELSE /\ \A g \in Gens : poll[g] = NoThread
               /\ \A i \in 1..Len(accepted) :
                     accepted[i] # <<235, 144, 221, 0, 0, 0, 0, 221>>)
    /\ [][PollTick =>
            /\ auto_polling
            /\ \A g \in Gens : poll'[g].pc \in {"unborn", "loop"}
            /\ call'.n = call.n + 1
            /\ IF Len(cmd_queue) = QueueSize
               THEN cmd_queue' = cmd_queue
               ELSE /\ Len(cmd_queue') = Len(cmd_queue) + 1
                    /\ SubSeq(cmd_queue', 1, Len(cmd_queue)) = cmd_queue
                    /\ cmd_queue'[Len(cmd_queue')].frame
                          = <<235, 144, 221, 0, 0, 0, 0, 221>>]_vars

\* C20 witness: a poll was dropped at a full queue that holds a speed
\* command and a poll, and the polling thread is in its loop.
C20_Witness ==
    /\ auto_polling
    /\ call.op = "poll_status" /\ call.result = "False"
    /\ Len(cmd_queue) = QueueSize
    /\ \E i, j \in 1..Len(cmd_queue) : cmd_queue[i].frame[3] # cmd_queue[j].frame[3]
    /\ \E g \in Gens : poll[g].pc = "loop"

(***************************************************************************)
(* Claims checked under FairIsoSpec and IsoSpec.                           *)
(***************************************************************************)
\* C21: on a running driver no loop ever ends, whatever write, read or
\* callback fails; after a failure every command that is accepted and not
\* yet handed to serial.write is handed to it, and both telemetry frames,
\* each arriving as a chunk of its own, are decoded.
C21_LoopsSurviveFaults ==
    /\ [](\A g \in Gens : Alive(comm[g]) /\ Alive(resp[g]) /\ Alive(proc[g]))
    /\ \A id \in 1..MaxRunCalls :
          (faults > 0 /\ id <= Len(accepted) /\ WrittenTimes(id) = 0)
              ~> (WrittenTimes(id) = 1)
    /\ (faults > 0) ~> (decoded = sent.frames)

\* C21 witness: a write raised, and afterwards a later command went out in
\* full and both frames were decoded.
C21_Witness ==
    /\ \E i, j \in 1..Len(written) :
          i < j /\ written[i].result = "raise" /\ written[j].result = "ok"
    /\ decoded = sent.frames
    /\ Len(telemetry) = 2

(***************************************************************************)
(* Claims about the decode buffer, checked under DecSpec.                  *)
(***************************************************************************)
\* an in-progress partial frame: no marker yet, or the marker at the start
\* and fewer bytes than the discriminator asks for
PartialFrame(buffer) ==
    \/ \A i \in 1..(Len(buffer) - 1) : ~(buffer[i] = 235 /\ buffer[i + 1] = 144)
    \/ /\ buffer[1] = 235 /\ buffer[2] = 144
       /\ Len(buffer) < 3 \/ Len(buffer) < (IF buffer[3] = 221 THEN 32 ELSE 8)

\* C22: after every pass of the decoder its buffer is empty or an
\* in-progress partial frame: it holds no byte before a marker and no
\* complete frame.
C22_BufferPartial ==
    \A g \in Gens : proc[g].buffer = <<>> \/ PartialFrame(proc[g].buffer)

(***************************************************************************)
(* Claims checked under CorruptSpec.                                       *)
(***************************************************************************)
\* C23: a frame that fails the checksum gives no record, and the valid
\* telemetry frame that follows it in the stream, in the same chunk or in a
\* later one, is decoded and delivered once all bytes have been taken.
C23_ValidAfterCorrupt ==
    /\ \A i \in 1..Len(decoded) : decoded[i] # sent.frames[1]
    /\ (Drained /\ sent.kind = "corrupt") =>
          /\ decoded = <<sent.frames[2]>>
          /\ Len(cb_log) = 1

(***************************************************************************)
(* Claims checked under BusySpec.                                          *)
(***************************************************************************)
\* C24: a reader that is forwarding a chunk after the running flag was
\* cleared is not held by a full queue for good: there is room in the queue
\* or a decoder is about to take a chunk out of it.
C24_ReaderNeverStuck ==
    \A g \in Gens :
        (resp[g].pc = "put" /\ ~_running /\ Len(resp_queue) = QueueSize) =>
            \E d \in Gens : proc[d].pc \in {"get"}

(***************************************************************************)
(* Claims about transport I/O and the connection, checked under Spec.      *)
(***************************************************************************)
\* a step in which a writer takes a command out of the queue or hands one
\* to serial.write, or a reader's serial.read returns or raises
TransportIo ==
    \/ \E g \in Gens : comm[g].pc = "get" /\ comm'[g].pc = "write"
    \/ written' # written
    \/ \E g \in Gens : resp[g].pc = "read" /\ resp'[g].pc # "read"

\* C25: a loop dequeues a command, writes or reads only while the driver is
\* connected, and the command queue of a driver that is not connected
\* changes only by a submission at its tail.
C25_NoIoWhileDisconnected ==
    /\ [][TransportIo => _is_connected]_vars
    /\ [][(~_is_connected /\ cmd_queue' # cmd_queue) =>
            SubSeq(cmd_queue', 1, Len(cmd_queue)) = cmd_queue]_vars

(***************************************************************************)
(* Claims about the frame length, checked under DecSpec.                   *)
(***************************************************************************)
\* the bytes the decoder looks at when it has taken the chunk: the buffer,
\* emptied if the chunk begins with 0xEB, the chunk, and of these the bytes
\* from the first marker on
Candidate(buffer, chunk) ==
    LET whole == (IF chunk[1] = 235 THEN <<>> ELSE buffer) \o chunk
        at == FindHeader(whole)
    IN IF at = 0 THEN <<>> ELSE SubSeq(whole, at, Len(whole))

\* C26: when the bytes from the marker on are at least 3, the frame is 32
\* bytes long if the third is 0xDD and 8 bytes otherwise; a pass that has
\* that many bytes removes exactly these and keeps the remainder, a pass
\* that has fewer keeps all; and a pass that cuts an 8-byte frame invokes
\* no callback and leaves the store as it is.
C26_LengthByDiscriminator ==
    [][\A g \in Gens :
          (proc[g].pc = "pass" /\ proc'[g].pc # "pass") =>
              LET cand == Candidate(proc[g].buffer, proc[g].chunk)
                  length == IF cand[3] = 221 THEN 32 ELSE 8
              IN Len(cand) >= 3 =>
                    IF Len(cand) < length
                    THEN /\ proc'[g].buffer = cand
                         /\ UNCHANGED << decoded, cb_log, telemetry >>
                    ELSE /\ proc'[g].buffer = SubSeq(cand, length + 1, Len(cand))
                         /\ length = 8 =>
                               /\ proc'[g].pc = "loop"
                               /\ UNCHANGED << decoded, cb_log, telemetry >>]_vars

\* C26 witness: the acknowledgment was cut from a chunk that went on with
\* bytes of the telemetry frame behind it; these bytes are the buffer, and
\* no callback was invoked.
C26_Witness ==
    /\ sent.frames = <<FrameAck, FrameRest>>
    /\ resp_queue = <<>>
    /\ \E g \in Gens :
          /\ proc[g].pc = "loop"
          /\ proc[g].buffer # <<>>
          /\ proc[g].buffer = SubSeq(Stream(sent), 9, 8 + Len(proc[g].buffer))
    /\ cb_log = <<>>
    /\ telemetry = <<>>

(***************************************************************************)
(* Claims about the number of loops, checked under Spec.                   *)
(***************************************************************************)
\* the generations whose thread of the pool is alive
AliveIn(pool) == {g \in DOMAIN pool : Alive(pool[g])}

\* C27: at any time at most one writer, one reader, one decoder and one
\* poller are alive, and a start() on a running driver reports False and
\* spawns nothing.
C27_OneLoopOfEachKind ==
    /\ [](/\ Cardinality(AliveIn(comm)) <= 1
          /\ Cardinality(AliveIn(resp)) <= 1
          /\ Cardinality(AliveIn(proc)) <= 1
          /\ Cardinality(AliveIn(poll)) <= 1)
    /\ [][(_running /\ starts' # starts) => FALSE]_vars
    /\ [][(_running /\ client = "idle" /\ last_op' # last_op /\ last_op'[1] = "start") =>
            last_op'[2] = FALSE]_vars

(***************************************************************************)
(* Claims checked under StoreSpec.                                         *)
(***************************************************************************)
\* the smaller of two numbers
Min(a, b) == IF a < b THEN a ELSE b

\* C28: with a callback the store changes only when the callback returns,
\* by taking the record the callback was given; a callback that raises
\* leaves the store as it is, so that the store holds the records whose
\* callback returned; every callback is given, as previous record, the
\* newest of the store, or the current record when the store is empty;
\* without a callback every decoded record is in the store.
C28_AppendAfterCallback ==
    /\ [][(callback /\ telemetry' # telemetry) =>
            \E g \in Gens :
                /\ proc[g].pc = "callback" /\ proc'[g].pc = "loop"
                /\ faults' = faults
                /\ telemetry'[Len(telemetry')] = proc[g].cur[1]]_vars
    /\ [][faults' # faults => telemetry' = telemetry]_vars
    /\ [][cb_log' # cb_log =>
            LET pair == cb_log'[Len(cb_log')]
            IN /\ pair[1] = _process_data(decoded'[Len(decoded')], Len(decoded'))
               /\ pair[2] = IF telemetry = <<>> THEN pair[1]
                             ELSE telemetry[Len(telemetry)]]_vars
    /\ []((\A g \in Gens : proc[g].pc \in {"loop", "get", "pass"}) =>
            Len(telemetry) = Min(MaxTelemetry,
                                 IF callback THEN Len(cb_log) - faults
                                 ELSE Len(decoded)))
    /\ [](~callback => cb_log = <<>>)

\* C28 witness: the callback raised for the second record and the third
\* record was paired with the first; the store holds the first and third.
C28_Witness ==
    /\ faults = 1
    /\ Len(cb_log) = 3
    /\ cb_log[3] = <<Delivered(3), Delivered(1)>>
    /\ telemetry = <<Delivered(1), Delivered(3)>>

(***************************************************************************)
(* Claims about failed writes, checked under FairRunSpec.                  *)
(***************************************************************************)
\* the commands handed to serial.write so far, or held by a writer for it
Dequeued ==
    {written[i].id : i \in 1..Len(written)}
        \cup {comm[g].command.id : g \in {h \in Gens : comm[h].pc = "write"}}

\* C29: a command that was taken out of the queue is never in the queue
\* again and is handed to serial.write at most once, whatever the write
\* does; the writes are in the order of acceptance; and after a write that
\* failed with a command waiting in the queue, a further write follows.
C29_FailedWriteIsLost ==
    /\ [](\A i \in 1..Len(cmd_queue) : cmd_queue[i].id \notin Dequeued)
    /\ [](\A i \in 1..Len(written) :
            /\ WrittenTimes(written[i].id) = 1
            /\ i > 1 => written[i - 1].id < written[i].id)
    /\ [][written' # written => cmd_queue' = cmd_queue]_vars
    /\ \A n \in 1..(MaxRunCalls + 1) :
          (Len(written) = n /\ written[n].result # "ok" /\ cmd_queue # <<>>)
              ~> (Len(written) > n)

\* C29 witness: the write of a command failed, the next command went out
\* in full, and the command that failed is not in the queue.
C29_Witness ==
    /\ Len(written) = 2
    /\ written[1].result # "ok"
    /\ written[2].result = "ok"
    /\ written[2].id = written[1].id + 1
    /\ Len(accepted) > Len(written)
    /\ \A i \in 1..Len(cmd_queue) : cmd_queue[i].id > written[2].id

====
